---- MODULE Spec2Model ----
(***************************************************************************)
(* Reminder scheduling core of li-reminder-bot (src/bot.js).               *)
(*                                                                         *)
(* The bot keeps one node-cron task per chat in the in-memory object       *)
(* activeTasks and the desired state of every chat in the Supabase table   *)
(* reminders.  Every handler is an async function: it runs synchronously   *)
(* up to an await of a store call, the store serves the request at some    *)
(* later moment, and the handler resumes with the response at a still      *)
(* later moment.  Handlers therefore interleave at their awaits, and the   *)
(* requests of different handlers are served in any order.                 *)
(*                                                                         *)
(* A step of the model is one of: a message arrives and its handler runs   *)
(* to its first await; the store serves one pending request; a handler     *)
(* resumes.  A resumption that touches nothing but the handler's own       *)
(* locals (it inspects the response, and returns or issues the next        *)
(* request) is taken together with the serving of the request, since no    *)
(* other handler can observe the moment between the two.  The resumptions  *)
(* that touch activeTasks or send a reminder are steps of their own.       *)
(***************************************************************************)
EXTENDS Integers, Sequences, FiniteSets, Bags, TLC

\* ------------------------------------------------------------------ bounds
\* Handler invocations that may be in flight at the same time.
MaxCalls == 2
\* cron tasks that may exist at the same time.
MaxTasks == 2
\* Tick callbacks that may be in flight at the same time.
MaxTicks == 1
\* The minutes the wall clock is followed for.
MaxClock == 130

\* ------------------------------------------------------- program constants
MinInterval == 5
MaxInterval == 1440
DefaultInterval == 60

\* The chats that send commands.  Handlers and ticks touch only the key and
\* the row of their own chat, so one chat shows every behaviour of a chat.
Chats == {1}
TaskIds == 1..MaxTasks

\* ------------------------------------------------------------- JS numbers
\* A JS number is <<n>>; NaN is the empty tuple, so that it equals no number
\* and every comparison with it is false, as in JS.
NaN == <<>>
Num(n) == <<n>>
isNaN(x) == x = NaN
Lt(x, k) == x # NaN /\ x[1] < k
Gt(x, k) == x # NaN /\ x[1] > k

\* parseInt(text.split(' ')[1]): an optional sign, then the longest prefix of
\* decimal digits; NaN when there is no digit (or no argument at all).
Digits == <<"0", "1", "2", "3", "4", "5", "6", "7", "8", "9">>
IsDigit(ch) == \E i \in 1..10 : Digits[i] = ch
DigitVal(ch) == (CHOOSE i \in 1..10 : Digits[i] = ch) - 1

RECURSIVE ParseDigits(_, _)
ParseDigits(s, acc) ==
    IF s = <<>> \/ ~IsDigit(Head(s))
    THEN acc
    ELSE ParseDigits(Tail(s), 10 * acc + DigitVal(Head(s)))

parseInt(s) ==
    LET signed == s # <<>> /\ Head(s) \in {"-", "+"}
        body   == IF signed THEN Tail(s) ELSE s
        sign   == IF signed /\ Head(s) = "-" THEN -1 ELSE 1
    IN  IF body = <<>> \/ ~IsDigit(Head(body))
        THEN NaN
        ELSE Num(sign * ParseDigits(body, 0))

\* The arguments of "/interval <arg>" that are sent (<<>>: no argument).
IntervalArgs ==
    { <<>>, <<"x">>, <<"4">>, <<"3", "0">>, <<"3", "0", "m">>,
      <<"1", "4", "4", "1">>, <<"-", "3", "0">> }

\* The keyboard buttons that are pressed to set an interval (of 30, 60, 120).
ButtonMinutes == {30, 60}

\* ------------------------------------------------------------------ state
VARIABLES
    reminders,    \* the table: chat -> <<>> (no row) or <<row>> (chat_id is UNIQUE)
    activeTasks,  \* the object activeTasks: chat -> task id, 0 when the key is absent
    tasks,        \* the cron tasks: id -> [running, chat, interval]
    calls,        \* the handler invocations in flight, a bag of call records
    ticks,        \* the tick callbacks in flight, a bag of tick records
    booted,       \* the process has run its top-level code
    clock,        \* the wall clock, in minutes since the start of an hour
    installedAt,  \* the minute at which the task now in activeTasks was scheduled
    firedAt       \* the minutes at which that task has fired since, oldest first

vars == <<reminders, activeTasks, tasks, calls, ticks, booted,
          clock, installedAt, firedAt>>

\* The passing of time is followed in CronSpec alone; elsewhere a running task
\* fires at any moment and the clock stands still.
cronVars == <<clock, installedAt, firedAt>>

Row(a, m, l) == [active |-> a, interval_minutes |-> m, last_reminder |-> l]

\* A task that does not tick: never scheduled, or stopped.
NoTask == [running |-> FALSE, chat |-> 0, interval |-> 0]

\* An invocation: the handler (op), its arguments, the await it is at (pc), the
\* data of the response it resumes with, and once it has returned (pc = "done")
\* what it reported (result), after which await (at) and how the store had
\* answered there (resp: "ok", "unavailable" or "rejected").
Call(op, c, minutes, pc) ==
    [op |-> op, chatId |-> c, minutes |-> minutes, pc |-> pc, data |-> <<>>,
     result |-> "none", at |-> "none", resp |-> "none"]

Tick(c, pc) == [chat |-> c, pc |-> pc, resp |-> "none"]

Replace(bag, old, new) == (bag (-) SetToBag({old})) (+) SetToBag({new})
Remove(bag, old) == bag (-) SetToBag({old})

InFlight == BagToSet(calls)
AllIdle == calls = EmptyBag

\* ----------------------------------------------------------- the store
\* What the store does with a request, as <<table after, data returned>>.
\* An UPDATE that matches no row changes nothing and is no error.

\* Lines 97-100.  Of the rows returned the handler reads interval_minutes alone.
SelectAll(c) ==
    <<reminders,
      IF reminders[c] = <<>> THEN <<>>
      ELSE <<[interval_minutes |-> reminders[c][1].interval_minutes]>>>>

\* Lines 109-111; last_reminder is NULL (0) in a new row.
InsertDefault(c) ==
    <<[reminders EXCEPT ![c] = <<Row(TRUE, DefaultInterval, 0)>>], <<>>>>

UpdateActive(c, a) ==
    <<IF reminders[c] = <<>> THEN reminders
      ELSE [reminders EXCEPT ![c] = <<[reminders[c][1] EXCEPT !.active = a]>>],
      <<>>>>

\* RemindUpdate that persists nothing.
RemindUpdateLost(c) == <<reminders, <<>>>>

\* Lines 147-150.
RemindUpdate(c) == UpdateActive(c, TRUE)

\* StopUpdate that persists nothing.
StopUpdateLost(c) == <<reminders, <<>>>>

\* Lines 221-224 and 245-248.
StopUpdate(c) == UpdateActive(c, FALSE)

\* UpsertInterval that creates the row with active = true.
UpsertIntervalActive(c, m) ==
    <<IF reminders[c] = <<>>
      THEN [reminders EXCEPT ![c] = <<Row(TRUE, m, 0)>>]
      ELSE [reminders EXCEPT ![c] = <<[reminders[c][1] EXCEPT !.interval_minutes = m]>>],
      <<>>>>

\* Lines 181-188; active is DEFAULT false (line 66) in a row the upsert creates.
UpsertInterval(c, m) ==
    <<IF reminders[c] = <<>>
      THEN [reminders EXCEPT ![c] = <<Row(FALSE, m, 0)>>]
      ELSE [reminders EXCEPT ![c] = <<[reminders[c][1] EXCEPT !.interval_minutes = m]>>],
      <<>>>>

\* Lines 125-129 and 193-197.
SelectActive(c) ==
    <<reminders,
      IF reminders[c] = <<>> THEN <<>> ELSE <<[active |-> reminders[c][1].active]>>>>

\* Lines 132-135; 1 stands for the timestamp written.
UpdateLastReminder(c) ==
    <<IF reminders[c] = <<>> THEN reminders
      ELSE [reminders EXCEPT ![c] = <<[reminders[c][1] EXCEPT !.last_reminder = 1]>>],
      <<>>>>

\* The store answers with an error object when it is unavailable or when it
\* rejects the request; the handlers test `if (error)` and tell no kinds apart.
Failed(resp) == resp # "ok"

\* INSERT fails on the UNIQUE chat_id; .single() fails when there is no row.
StoreRejects(req, c) ==
    \/ req = "r_insert" /\ reminders[c] # <<>>
    \/ req \in {"i_select", "t_select"} /\ reminders[c] = <<>>

StoreAnswer(req, c, fail) ==
    IF fail THEN "unavailable" ELSE IF StoreRejects(req, c) THEN "rejected" ELSE "ok"

StoreEffect(req, c, minutes) ==
    CASE req = "r_select" -> SelectAll(c)
      [] req = "r_insert" -> InsertDefault(c)
      [] req = "r_update" -> RemindUpdate(c)
      [] req = "i_upsert" -> UpsertInterval(c, minutes[1])
      [] req = "i_select" -> SelectActive(c)
      [] req = "s_update" -> StopUpdate(c)
      [] req = "t_select" -> SelectActive(c)
      [] req = "t_update" -> UpdateLastReminder(c)

\* The awaits of the handlers, and of the tick callback.
CallRequests == {"r_select", "r_insert", "r_update", "i_upsert", "i_select", "s_update"}
TickRequests == {"t_select", "t_update"}

\* ------------------------------------------------------------ cron tasks
\* StopPrevious without the stop: the previous task keeps ticking.
StopPreviousSkipped(c) == tasks

\* activeTasks[chatId].stop() when the key is present (lines 117-119, 215-216).
StopPrevious(c) ==
    IF activeTasks[c] # 0 THEN [tasks EXCEPT ![activeTasks[c]] = NoTask] ELSE tasks

FreeIds(ts) == {i \in TaskIds : ~ts[i].running}
NewId(ts) == CHOOSE i \in FreeIds(ts) : \A j \in FreeIds(ts) : i <= j

\* cron.schedule(`*/${interval} * * * *`, callback): a new running task.
Schedule(ts, c, interval) ==
    [ts EXCEPT ![NewId(ts)] = [running |-> TRUE, chat |-> c, interval |-> interval]]

\* Lines 214-218 / 238-242: stop the chat's task and delete its key.
StopAndDelete(c) ==
    /\ tasks' = StopPrevious(c)
    /\ activeTasks' = [activeTasks EXCEPT ![c] = 0]

\* ------------------------------------------------------ handler plumbing
\* The handler returns.
Finished(k, result, resp) ==
    [k EXCEPT !.pc = "done", !.data = <<>>,
              !.result = result, !.at = k.pc, !.resp = resp]

\* The handler issues its next request.
Goto(k, pc) == [k EXCEPT !.pc = pc, !.data = <<>>]

Receives == booted /\ BagCardinality(calls) < MaxCalls

\* ------------------------------------------------- handleRemindCommand
\* bot.on('message'): '/remind' or the enable button; lines 94-100.
handleRemindCommand(c) ==
    /\ Receives
    /\ calls' = calls (+) SetToBag({Call("remind", c, NaN, "r_select")})
    /\ UNCHANGED <<reminders, activeTasks, tasks, ticks, booted>>
    /\ UNCHANGED cronVars

\* Lines 102-114: after the select.  With a row the handler goes on to lines
\* 116-144 (pc "r_install"), without one it issues the insert.
RemindAfterSelect(k, resp, data) ==
    IF Failed(resp) THEN Finished(k, "error", resp)
    ELSE IF Len(data) > 0 THEN [k EXCEPT !.pc = "r_install", !.data = data]
    ELSE Goto(k, "r_insert")

\* Lines 113-114: after the insert.
RemindAfterInsert(k, resp) ==
    IF Failed(resp) THEN Finished(k, "error", resp)
    ELSE [k EXCEPT !.pc = "r_install", !.data = <<>>]

\* RemindInterval that ignores the row read.
RemindIntervalDefault(data) == DefaultInterval

\* Lines 105-107: the interval of the row read, or else the default.
RemindInterval(data) ==
    IF Len(data) > 0 THEN data[1].interval_minutes ELSE DefaultInterval

\* Lines 116-150, which run without an await: stop the previous task, schedule
\* the new one, store it under the chat's key, issue the update.
RemindInstall(k) ==
    LET c == k.chatId IN
    /\ k \in InFlight /\ k.pc = "r_install"
    /\ FreeIds(StopPrevious(c)) # {}
    /\ tasks' = Schedule(StopPrevious(c), c, RemindInterval(k.data))
    /\ activeTasks' = [activeTasks EXCEPT ![c] = NewId(StopPrevious(c))]
    /\ calls' = Replace(calls, k, Goto(k, "r_update"))
    /\ UNCHANGED <<reminders, ticks, booted>>
    /\ UNCHANGED cronVars

\* Lines 152-162: the catch block reports the failure and touches no task.
RemindAfterUpdate(k, resp) ==
    Finished(k, IF Failed(resp) THEN "error" ELSE "ok", resp)

\* ----------------------------------------------- handleIntervalCommand
\* InvalidInterval with the lower limit off by one.
InvalidIntervalOffByOne(minutes) ==
    \/ isNaN(minutes)
    \/ Lt(minutes, MinInterval - 1) \/ Gt(minutes, MaxInterval)

\* InvalidInterval without the upper limit.
InvalidIntervalNoUpper(minutes) ==
    \/ isNaN(minutes)
    \/ Lt(minutes, MinInterval)

\* Lines 167-177: the two validations, before any await.
InvalidInterval(minutes) ==
    \/ isNaN(minutes)
    \/ Lt(minutes, MinInterval) \/ Gt(minutes, MaxInterval)

handleIntervalCommand(c, minutes) ==
    /\ Receives
    /\ calls' = calls (+) SetToBag({
          IF InvalidInterval(minutes)
          THEN [Call("interval", c, minutes, "done") EXCEPT
                    !.result = "invalid", !.at = "i_check"]
          ELSE Call("interval", c, minutes, "i_upsert")})
    /\ UNCHANGED <<reminders, activeTasks, tasks, ticks, booted>>
    /\ UNCHANGED cronVars

\* bot.on('message'): one of the interval buttons (lines 277-285).
OnIntervalButton(c) ==
    \E m \in ButtonMinutes : handleIntervalCommand(c, Num(m))

\* bot.on('message'): '/interval <arg>' (lines 286-289).
OnIntervalText(c) ==
    \E arg \in IntervalArgs : handleIntervalCommand(c, parseInt(arg))

\* Lines 190-197: after the upsert.
IntervalAfterUpsert(k, resp) ==
    IF Failed(resp) THEN Finished(k, "error", resp) ELSE Goto(k, "i_select")

\* Lines 199-204: only data is read, so a failed select reads as "not active";
\* when active, the handler goes on as handleRemindCommand.
IntervalAfterSelect(k, resp, data) ==
    IF Len(data) > 0 /\ data[1].active
    THEN Goto(k, "r_select")
    ELSE Finished(k, "ok", resp)

\* ------------------------- handleStopCommand and handlePublishedCommand
handleStopCommand(c) ==
    /\ Receives
    /\ StopAndDelete(c)
    /\ calls' = calls (+) SetToBag({Call("stop", c, NaN, "s_update")})
    /\ UNCHANGED <<reminders, ticks, booted>>
    /\ UNCHANGED cronVars

handlePublishedCommand(c) ==
    /\ Receives
    /\ StopAndDelete(c)
    /\ calls' = calls (+) SetToBag({Call("published", c, NaN, "s_update")})
    /\ UNCHANGED <<reminders, ticks, booted>>
    /\ UNCHANGED cronVars

\* Lines 226-232 / 250-256.
StopAfterUpdate(k, resp) ==
    Finished(k, IF Failed(resp) THEN "error" ELSE "ok", resp)

\* ------------------------------------------------ the store at work
\* How the handler goes on from the response to the request it awaits.
Continue(k, resp, data) ==
    CASE k.pc = "r_select" -> RemindAfterSelect(k, resp, data)
      [] k.pc = "r_insert" -> RemindAfterInsert(k, resp)
      [] k.pc = "r_update" -> RemindAfterUpdate(k, resp)
      [] k.pc = "i_upsert" -> IntervalAfterUpsert(k, resp)
      [] k.pc = "i_select" -> IntervalAfterSelect(k, resp, data)
      [] k.pc = "s_update" -> StopAfterUpdate(k, resp)

\* The store serves the request of invocation k: it fails (the store is
\* unavailable, or it rejects the request) and changes nothing, or the request
\* takes effect.
StoreServesCall(k, fail) ==
    LET eff == StoreEffect(k.pc, k.chatId, k.minutes) IN
    /\ k \in InFlight /\ k.pc \in CallRequests
    /\ IF Failed(StoreAnswer(k.pc, k.chatId, fail))
       THEN /\ calls' = Replace(calls, k,
                           Continue(k, StoreAnswer(k.pc, k.chatId, fail), <<>>))
            /\ UNCHANGED reminders
       ELSE /\ calls' = Replace(calls, k, Continue(k, "ok", eff[2]))
            /\ reminders' = eff[1]
    /\ UNCHANGED <<activeTasks, tasks, ticks, booted>>
    /\ UNCHANGED cronVars

\* The message handler's await returns (lines 264-298).
Return(k) ==
    /\ k \in InFlight /\ k.pc = "done"
    /\ calls' = Remove(calls, k)
    /\ UNCHANGED <<reminders, activeTasks, tasks, ticks, booted>>
    /\ UNCHANGED cronVars

\* ------------------------------------------------- the tick callback
\* A running task fires: the callback starts and awaits its select (line 125).
TickFires(i) ==
    /\ tasks[i].running
    /\ BagCardinality(ticks) < MaxTicks
    /\ ticks' = ticks (+) SetToBag({Tick(tasks[i].chat, "t_select")})
    /\ UNCHANGED <<reminders, activeTasks, tasks, calls, booted>>
    /\ UNCHANGED cronVars

\* TickAfterSelect with the test of the flag inverted.
TickAfterSelectInverted(k, data) ==
    IF Len(data) > 0 /\ data[1].active
    THEN EmptyBag
    ELSE SetToBag({[k EXCEPT !.pc = "t_update"]})

\* TickAfterSelect that does not look at the flag read.
TickAfterSelectAlways(k, data) == SetToBag({[k EXCEPT !.pc = "t_update"]})

\* Line 131: data?.active decides; a failed select reads as "not active".
TickAfterSelect(k, data) ==
    IF Len(data) > 0 /\ data[1].active
    THEN SetToBag({[k EXCEPT !.pc = "t_update"]})
    ELSE EmptyBag

\* Lines 132-136: the result of the update is not looked at.
TickAfterUpdate(k, resp) == SetToBag({[k EXCEPT !.pc = "t_send", !.resp = resp]})

StoreServesTick(k, fail) ==
    LET eff  == StoreEffect(k.pc, k.chat, NaN)
        resp == StoreAnswer(k.pc, k.chat, fail)
        bad  == Failed(resp)
        data == IF bad THEN <<>> ELSE eff[2]
    IN
    /\ k \in BagToSet(ticks) /\ k.pc \in TickRequests
    /\ reminders' = IF bad THEN reminders ELSE eff[1]
    /\ ticks' = Remove(ticks, k) (+)
                (IF k.pc = "t_select" THEN TickAfterSelect(k, data)
                                      ELSE TickAfterUpdate(k, resp))
    /\ UNCHANGED <<activeTasks, tasks, calls, booted>>
    /\ UNCHANGED cronVars

\* Line 137: bot.sendMessage delivers the reminder; the callback ends.
TickSends(k) ==
    /\ k \in BagToSet(ticks) /\ k.pc = "t_send"
    /\ ticks' = Remove(ticks, k)
    /\ UNCHANGED <<reminders, activeTasks, tasks, calls, booted>>
    /\ UNCHANGED cronVars

\* ------------------------------------------------------ process lifecycle
\* Lines 1-21 and 259-318: the top-level code creates an empty activeTasks and
\* registers the handlers; it reads no row and schedules no task.
Bootstrap ==
    /\ ~booted
    /\ booted' = TRUE
    /\ UNCHANGED <<reminders, activeTasks, tasks, calls, ticks>>
    /\ UNCHANGED cronVars

\* Lines 306-316: SIGTERM or SIGINT stops every task and exits; everything in
\* memory is gone (requests in flight are taken as lost), the table stays.
Terminate ==
    /\ booted
    /\ booted' = FALSE
    /\ activeTasks' = [c \in Chats |-> 0]
    /\ tasks' = [i \in TaskIds |-> NoTask]
    /\ calls' = EmptyBag
    /\ ticks' = EmptyBag
    /\ UNCHANGED reminders
    /\ UNCHANGED cronVars

\* ------------------------------------------------------- specifications
\* A fresh deployment: the table is empty and the process has not started.
Init ==
    /\ reminders = [c \in Chats |-> <<>>]
    /\ activeTasks = [c \in Chats |-> 0]
    /\ tasks = [i \in TaskIds |-> NoTask]
    /\ calls = EmptyBag
    /\ ticks = EmptyBag
    /\ booted = FALSE
    /\ clock = 0
    /\ installedAt = 0
    /\ firedAt = <<>>

Receive(c) ==
    \/ handleRemindCommand(c)
    \/ OnIntervalButton(c)
    \/ OnIntervalText(c)
    \/ handleStopCommand(c)
    \/ handlePublishedCommand(c)

\* The next message is taken when the handler of the previous one has returned.
ReceiveNext(c) ==
    \/ AllIdle /\ handleRemindCommand(c)
    \/ AllIdle /\ OnIntervalButton(c)
    \/ AllIdle /\ OnIntervalText(c)
    \/ AllIdle /\ handleStopCommand(c)
    \/ AllIdle /\ handlePublishedCommand(c)

Background ==
    \/ \E k \in InFlight, fail \in BOOLEAN : StoreServesCall(k, fail)
    \/ \E k \in InFlight : RemindInstall(k)
    \/ \E k \in InFlight : Return(k)
    \/ \E i \in TaskIds : TickFires(i)
    \/ \E k \in BagToSet(ticks), fail \in BOOLEAN : StoreServesTick(k, fail)
    \/ \E k \in BagToSet(ticks) : TickSends(k)
    \/ Bootstrap

\* Messages arrive at any time, so handlers overlap at their awaits, and the
\* process is restarted at any time.
Next ==
    \/ \E c \in Chats : Receive(c)
    \/ Background
    \/ Terminate

Spec == Init /\ [][Next]_vars

\* Messages arrive one after the other: a message is handled only when no
\* handler is in flight.  Ticks run in between, and the process is restarted
\* at any time.
NextSeq ==
    \/ \E c \in Chats : ReceiveNext(c)
    \/ Background
    \/ Terminate

SeqSpec == Init /\ [][NextSeq]_vars

\* One lifetime of the process: messages arrive one after the other and the
\* process is not restarted.
NextUptime ==
    \/ \E c \in Chats : ReceiveNext(c)
    \/ Background

UptimeSpec == Init /\ [][NextUptime]_vars

\* One lifetime of the process under fair scheduling: node-cron goes on
\* invoking the callbacks of running tasks, the store answers every request
\* of a callback and does not fail for ever, and a callback that has its
\* answer goes on to send.
FairSpec ==
    /\ UptimeSpec
    /\ WF_vars(\E i \in TaskIds : TickFires(i))
    /\ SF_vars(\E k \in BagToSet(ticks) : StoreServesTick(k, FALSE))
    /\ WF_vars(\E k \in BagToSet(ticks) : TickSends(k))

\* A chat that Enable has brought to running at the default interval: the
\* state handleRemindCommand leaves on a chat without record (lines 105-152).
InitRunning ==
    /\ reminders = [c \in Chats |-> <<Row(TRUE, DefaultInterval, 0)>>]
    /\ activeTasks = [c \in Chats |-> 1]
    /\ tasks = [i \in TaskIds |->
                  IF i = 1 THEN [running |-> TRUE, chat |-> 1, interval |-> DefaultInterval]
                  ELSE NoTask]
    /\ calls = EmptyBag
    /\ ticks = EmptyBag
    /\ booted = TRUE
    /\ clock = 0
    /\ installedAt = 0
    /\ firedAt = <<>>

\* Every message but the enable command.
ReceiveNoEnable(c) ==
    \/ OnIntervalButton(c)
    \/ OnIntervalText(c)
    \/ handleStopCommand(c)
    \/ handlePublishedCommand(c)

\* The chat is running and no enable command is sent any more: interval, stop
\* and published messages arrive at any time, so their handlers overlap.
NextNoEnable ==
    \/ \E c \in Chats : ReceiveNoEnable(c)
    \/ Background
    \/ Terminate

NoEnableSpec == InitRunning /\ [][NextNoEnable]_vars

\* ------------------------------------------------------ the cron schedule
\* The intervals of the three buttons (lines 277-285).
CronIntervals == {30, 60, 120}

\* The minute field `*/${interval}` of the pattern (line 122): node-cron expands
\* the star to 0..59 and keeps the values the step divides.
CronMinutes(interval) == {x \in 0..59 : x % interval = 0}

\* The pattern `*/${interval} * * * *` matches wall-clock minute t.
CronMatches(interval, t) == (t % 60) \in CronMinutes(interval)

\* The running tasks whose pattern matches minute t.
Matching(t) == {i \in TaskIds : tasks[i].running /\ CronMatches(tasks[i].interval, t)}

\* A chat is running: handleRemindCommand has scheduled its task at some moment
\* of an hour (lines 116-150) and the record holds the task's interval.
InitCron ==
    /\ \E m \in CronIntervals :
          /\ reminders = [c \in Chats |-> <<Row(TRUE, m, 0)>>]
          /\ tasks = [i \in TaskIds |->
                        IF i = 1 THEN [running |-> TRUE, chat |-> 1, interval |-> m]
                        ELSE NoTask]
    /\ activeTasks = [c \in Chats |-> 1]
    /\ calls = EmptyBag
    /\ ticks = EmptyBag
    /\ booted = TRUE
    /\ clock \in 0..59
    /\ installedAt = clock
    /\ firedAt = <<>>

\* A minute passes; node-cron runs the callback of every task whose pattern
\* matches the new minute.  The first two fires of a task are kept.
MinutePasses ==
    /\ clock < MaxClock
    /\ clock' = clock + 1
    /\ firedAt' = IF Matching(clock + 1) # {} /\ Len(firedAt) < 2
                  THEN Append(firedAt, clock + 1) ELSE firedAt
    /\ UNCHANGED <<reminders, activeTasks, tasks, calls, ticks, booted, installedAt>>

\* The chat is retuned to m minutes: the upsert of handleIntervalCommand (lines
\* 181-188) and lines 116-144 of handleRemindCommand, at the present minute.
Retune(c, m) ==
    /\ reminders' = UpsertInterval(c, m)[1]
    /\ tasks' = Schedule(StopPrevious(c), c, m)
    /\ activeTasks' = [activeTasks EXCEPT ![c] = NewId(StopPrevious(c))]
    /\ installedAt' = clock
    /\ firedAt' = <<>>
    /\ UNCHANGED <<calls, ticks, booted, clock>>

NextCron ==
    \/ MinutePasses
    \/ \E c \in Chats, m \in CronIntervals : Retune(c, m)

CronSpec == InitCron /\ [][NextCron]_vars


\* ------------------------------------------------------------ properties
\* The started-and-not-yet-stopped tasks of chat c.
LiveTasks(c) == {i \in TaskIds : tasks[i].running /\ tasks[i].chat = c}

\* activeTasks holds a live task for chat c.
Held(c) == activeTasks[c] # 0 /\ activeTasks[c] \in LiveTasks(c)

\* The persisted record of chat c has active = true.
Active(c) == reminders[c] # <<>> /\ reminders[c][1].active

\* The record and the timer map agree on chat c.
Consistent(c) == Active(c) <=> Held(c)

StopOps == {"stop", "published"}

Done(k) == k \in InFlight /\ k.pc = "done"

\* C1: in every reachable state, however Enable, SetInterval, Disable and
\* Acknowledge calls follow each other or overlap, a chat has at most one
\* started-and-not-yet-stopped task, and that task is the one activeTasks
\* holds for the chat: no task outside the map keeps ticking.
C1_AtMostOneLiveTimer ==
    \A c \in Chats :
        /\ Cardinality(LiveTasks(c)) <= 1
        /\ \A i \in LiveTasks(c) : activeTasks[c] = i

\* Two overlapping Enable calls of one chat have both installed their task
\* (both await the final update) and one live task is left.
C1_Witness ==
    \E k \in InFlight :
        /\ k.op = "remind" /\ k.pc = "r_update"
        /\ CopiesIn(k, calls) = 2
        /\ Cardinality(LiveTasks(k.chatId)) = 1

\* C2: whenever no operation is in progress, the record of a chat has
\* active = true if and only if activeTasks holds a live task for the chat,
\* also after operations in which a store call failed.
C2_ActiveIffTimer ==
    (booted /\ AllIdle) => \A c \in Chats : Consistent(c)

\* C3: when the final update of active = true fails in Enable, the task this
\* call has just started is stopped and removed before the failure is
\* reported: no live task is left for the chat.
C3_FailedEnableLeavesNoTimer ==
    \A k \in InFlight :
        (k.pc = "done" /\ k.op = "remind" /\ k.at = "r_update" /\ k.result = "error")
            => LiveTasks(k.chatId) = {}


\* C4: when Enable completes successfully, whether the chat had no record,
\* a record with active = false or was already running, exactly one live task
\* exists for the chat, activeTasks holds it, and the record has active = true.
\* (Messages are handled one after the other; overlapping calls are C7.)
C4_EnableSuccess ==
    \A k \in InFlight :
        (k.pc = "done" /\ k.op = "remind" /\ k.result = "ok")
            => /\ Cardinality(LiveTasks(k.chatId)) = 1
               /\ Held(k.chatId)
               /\ Active(k.chatId)

\* Enable has succeeded on a record that existed before the call: its interval
\* is one only SetInterval writes.
C4_Witness ==
    \E k \in InFlight :
        /\ k.pc = "done" /\ k.op = "remind" /\ k.result = "ok"
        /\ reminders[k.chatId] # <<>>
        /\ reminders[k.chatId][1].interval_minutes = 30
        /\ Held(k.chatId)

\* The chat is disabled: no task, no key in activeTasks, and no record with
\* active = true (the record has active = false, or the chat has none).
Disabled(c) == activeTasks[c] = 0 /\ LiveTasks(c) = {} /\ ~Active(c)

\* C5 as stated: when Disable or Acknowledge completes, in whatever way, no
\* live task exists for the chat and its persisted active flag is false.
C5_AsStated ==
    \A k \in InFlight :
        (k.pc = "done" /\ k.op \in StopOps)
            => LiveTasks(k.chatId) = {} /\ ~Active(k.chatId)

\* A step of a Disable or Acknowledge call of chat c: the message arrives, or
\* the store serves the call's update and the handler returns.
StopStep(c) ==
    /\ booted'
    /\ \/ \E k \in BagToSet(calls') :
            k.op \in StopOps /\ k.chatId = c /\ k.pc = "s_update" /\ AllIdle
       \/ \E k \in InFlight :
            k.op \in StopOps /\ k.chatId = c /\ k.pc = "s_update"
            /\ k \notin BagToSet(calls')

\* Disable or Acknowledge has reported success.
C5_Completed ==
    \A k \in InFlight :
        (k.pc = "done" /\ k.op \in StopOps /\ k.result = "ok") => Disabled(k.chatId)

\* A Disable or Acknowledge call of a disabled chat changes nothing, and it
\* reports an error only when the store was unavailable for its update.
C5_Repeated ==
    \A c \in Chats :
        (Disabled(c) /\ StopStep(c))
            => /\ reminders' = reminders
               /\ activeTasks' = activeTasks
               /\ tasks' = tasks
               /\ \A k \in BagToSet(calls') :
                    (k.op \in StopOps /\ k.result = "error") => k.resp = "unavailable"

\* C5, amended: when Disable or Acknowledge completes successfully (its store
\* write did not fail), no live task exists for the chat, activeTasks has no
\* key for it and the chat has no record with active = true; this holds alike
\* for both operations; and a further Disable or Acknowledge call of the chat
\* changes neither the timer map nor the record, and reports no error unless
\* the store is unavailable for its own write (also for a chat without record).
\* (Messages are handled one after the other; overlapping calls are C7.)
C5_DisableSuccess == []C5_Completed /\ [][C5_Repeated]_vars

\* Acknowledge has succeeded on a chat that Enable had given a record: no task
\* is left and the record has active = false.
C5_Witness ==
    \E k \in InFlight :
        /\ k.pc = "done" /\ k.op = "published" /\ k.result = "ok"
        /\ reminders[k.chatId] # <<>>
        /\ reminders[k.chatId][1].interval_minutes = DefaultInterval
        /\ Disabled(k.chatId)

\* The task activeTasks holds for chat c ticks at the persisted interval.
TimerAtPersistedInterval(c) ==
    /\ Held(c)
    /\ reminders[c] # <<>>
    /\ tasks[activeTasks[c]].interval = reminders[c][1].interval_minutes

\* C6: after a process restart, when the top-level code has run, every chat
\* whose record has active = true has a live task at its persisted
\* interval_minutes, with no Enable call, and the table is not written.
C6_RestartRestoresTimers ==
    [][(~booted /\ booted')
         => /\ reminders' = reminders
            /\ \A c \in Chats : Active(c)' => TimerAtPersistedInterval(c)']_vars

\* C7: when an Enable and a Disable (or Acknowledge) of the same chat have both
\* completed successfully, however they overlapped and in whatever order their
\* writes took effect, the chat is in one of the two states a serial order
\* gives: a live task with active = true, or no task with active = false.
C7_EnableDisableSerializable ==
    \A e, d \in InFlight :
        ( /\ e.pc = "done" /\ e.op = "remind" /\ e.result = "ok"
          /\ d.pc = "done" /\ d.op \in StopOps /\ d.result = "ok"
          /\ e.chatId = d.chatId
          /\ BagCardinality(calls) = 2 )
            => \/ Held(e.chatId) /\ Active(e.chatId)
                    /\ Cardinality(LiveTasks(e.chatId)) = 1
               \/ Disabled(e.chatId)

\* The minutes SetInterval rejects: not a number, below 5 or above 1440.
OutOfRange(m) == m = NaN \/ m[1] < 5 \/ m[1] > 1440

\* The upsert, the one request that carries minutes, never carries minutes out
\* of range.
C8_NoRequest ==
    \A k \in InFlight : k.pc = "i_upsert" => ~OutOfRange(k.minutes)

\* C8: SetInterval with minutes below 5, above 1440 or not a number returns
\* from its validation with an invalid-input result: it issues no store
\* request and starts or stops no task, so the record (or its absence) and the
\* timer are as before the call.
C8_InvalidIntervalChangesNothing ==
    /\ []C8_NoRequest
    /\ [][\A c \in Chats, arg \in IntervalArgs :
         (OutOfRange(parseInt(arg)) /\ handleIntervalCommand(c, parseInt(arg)))
            => /\ reminders' = reminders
               /\ activeTasks' = activeTasks
               /\ tasks' = tasks
               /\ \E k \in BagToSet(calls') :
                    /\ k.op = "interval" /\ k.pc = "done" /\ k.result = "invalid"
                    /\ calls' = calls (+) SetToBag({k})]_vars

\* SetInterval has rejected 4 minutes for a chat that is running.
C8_Witness ==
    \E k \in InFlight :
        /\ k.op = "interval" /\ k.result = "invalid" /\ k.minutes = Num(4)
        /\ Held(k.chatId) /\ Active(k.chatId)

\* C9: in every reachable state every persisted record has interval_minutes
\* within [5, 1440], whatever the operations and the minutes they are given.
C9_IntervalInRange ==
    \A c \in Chats :
        reminders[c] # <<>> =>
            /\ reminders[c][1].interval_minutes >= 5
            /\ reminders[c][1].interval_minutes <= 1440

\* A record the upsert of SetInterval has written, while a SetInterval call
\* with minutes out of range has just returned.
C9_Witness ==
    \E k \in InFlight :
        /\ k.op = "interval" /\ k.result = "invalid" /\ k.minutes = Num(1441)
        /\ reminders[k.chatId] # <<>>
        /\ reminders[k.chatId][1].interval_minutes = 30

\* After a successful Enable the chat runs at the persisted interval.
C10_Completed ==
    \A k \in InFlight :
        (k.pc = "done" /\ k.op = "remind" /\ k.result = "ok")
            => TimerAtPersistedInterval(k.chatId) /\ Active(k.chatId)

\* The interval_minutes of an existing record changes only when the store
\* serves the upsert of a SetInterval call, never by Enable or Disable.
C10_IntervalKept ==
    \A c \in Chats :
        (reminders[c] # <<>> /\ reminders'[c] # reminders[c])
            => \/ reminders'[c] # <<>>
                    /\ reminders'[c][1].interval_minutes = reminders[c][1].interval_minutes
               \/ \E k \in InFlight : k.pc = "i_upsert" /\ k.chatId = c

\* The task an Enable call installs ticks at the interval_minutes the record
\* holds at that moment.
C10_InstalledAtStored ==
    \A k \in InFlight :
        ( /\ k.op = "remind" /\ k.pc = "r_install"
          /\ activeTasks'[k.chatId] # 0
          /\ tasks' # tasks )
            => TimerAtPersistedInterval(k.chatId)' /\ reminders' = reminders

\* A record that appears during an Enable call is the default record.
C10_DefaultInserted ==
    \A k \in InFlight :
        (k.op = "remind" /\ reminders[k.chatId] = <<>> /\ reminders'[k.chatId] # <<>>)
            => reminders'[k.chatId] = <<Row(TRUE, 60, 0)>>

\* C10 (messages handled one after the other):
\* Enable uses the default interval 60 only when the chat has no record,
\* and then inserts {active = true, interval_minutes = 60}; when a record
\* exists Enable starts the task at the stored interval_minutes and does not
\* overwrite it, so Enable, SetInterval(30), Disable, Enable ends with a live
\* task at cadence 30 and the record {active = true, interval_minutes = 30}.
C10_EnableReusesInterval ==
    /\ []C10_Completed
    /\ [][C10_IntervalKept /\ C10_InstalledAtStored /\ C10_DefaultInserted]_vars

\* Enable has succeeded after SetInterval(30): cadence 30, record {true, 30}.
C10_Witness ==
    \E k \in InFlight :
        /\ k.pc = "done" /\ k.op = "remind" /\ k.result = "ok"
        /\ Held(k.chatId)
        /\ tasks[activeTasks[k.chatId]].interval = 30
        /\ reminders[k.chatId][1].active
        /\ reminders[k.chatId][1].interval_minutes = 30

\* C11: after a task is installed for a chat at cadence m (by Enable or by a
\* retune), its first fire comes m minutes after the install, and its
\* successive fires come exactly m minutes apart.
C11_CadenceFromInstall ==
    \A c \in Chats :
        Held(c) =>
            /\ Len(firedAt) >= 1 => firedAt[1] = installedAt + tasks[activeTasks[c]].interval
            /\ Len(firedAt) >= 2 => firedAt[2] - firedAt[1] = tasks[activeTasks[c]].interval

\* C12: when SetInterval(c, m) with valid m completes successfully on a chat
\* whose record has active = true, the record has interval_minutes = m and
\* active = true, and the chat's single live task, the one activeTasks holds,
\* runs at cadence m.  (Messages are handled one after the other, so the flag
\* the call found is the flag the record has when the call returns.)
C12_RetuneWhileRunning ==
    \A k \in InFlight :
        ( /\ k.op = "interval" /\ k.pc = "done" /\ k.result = "ok"
          /\ Active(k.chatId) )
            => /\ reminders[k.chatId][1].interval_minutes = k.minutes[1]
               /\ Cardinality(LiveTasks(k.chatId)) = 1
               /\ Held(k.chatId)
               /\ tasks[activeTasks[k.chatId]].interval = k.minutes[1]

\* C13 as stated: after SetInterval(c, m) with valid m on a chat that is
\* disabled or has no record, however the call ended, a record exists with
\* interval_minutes = m and active = false, and the chat has no task.
C13_AsStated ==
    \A k \in InFlight :
        ( /\ k.op = "interval" /\ k.pc = "done" /\ k.result # "invalid"
          /\ Disabled(k.chatId) )
            => /\ reminders[k.chatId] # <<>>
               /\ reminders[k.chatId][1].interval_minutes = k.minutes[1]
               /\ ~reminders[k.chatId][1].active

\* A step of a SetInterval call of chat c with valid minutes: the message
\* arrives, or the store serves a request of the call.
IntervalStep(c) ==
    \/ \E m \in ButtonMinutes : handleIntervalCommand(c, Num(m))
    \/ \E k \in InFlight, fail \in BOOLEAN :
            k.op = "interval" /\ k.chatId = c /\ StoreServesCall(k, fail)

\* SetInterval has reported success on a disabled chat.
C13_Completed ==
    \A k \in InFlight :
        ( /\ k.op = "interval" /\ k.pc = "done" /\ k.result = "ok"
          /\ Disabled(k.chatId) )
            => /\ reminders[k.chatId] # <<>>
               /\ reminders[k.chatId][1].interval_minutes = k.minutes[1]
               /\ ~reminders[k.chatId][1].active

\* No step of a SetInterval call of a disabled chat touches a task or the
\* timer map or enables the chat, and the record it creates has active = false.
C13_Frame ==
    \A c \in Chats :
        (Disabled(c) /\ IntervalStep(c))
            => /\ activeTasks' = activeTasks
               /\ tasks' = tasks
               /\ Disabled(c)'
               /\ (reminders[c] = <<>> /\ reminders'[c] # <<>>)
                    => ~reminders'[c][1].active

\* C13, amended: SetInterval(c, m) with valid m on a chat that is disabled or
\* has no record leaves the timer map and every task as they are, so the chat
\* has no task; and when the call completes successfully (its upsert did not
\* fail) a record exists with interval_minutes = m and active = false,
\* created with active = false when it was absent.
\* (Messages are handled one after the other; overlapping calls are C14.)
C13_PersistsIntervalOnly == []C13_Completed /\ [][C13_Frame]_vars

\* SetInterval(30) has succeeded on a chat that had no record.
C13_Witness ==
    \E k \in InFlight :
        /\ k.op = "interval" /\ k.pc = "done" /\ k.result = "ok"
        /\ k.minutes = Num(30)
        /\ reminders[k.chatId] = <<Row(FALSE, 30, 0)>>
        /\ Disabled(k.chatId)

\* C14: a SetInterval call never brings a disabled chat back to running.  With
\* no Enable invoked any more, once a Disable (or Acknowledge) has succeeded and
\* no operation is in progress, the chat has no live task and its record has
\* not active = true, also when a SetInterval overlapped the Disable.
C14_SetIntervalNeverEnables ==
    \A d \in InFlight :
        ( /\ d.op \in StopOps /\ d.pc = "done" /\ d.result = "ok"
          /\ \A k \in InFlight : k.pc = "done" )
            => LiveTasks(d.chatId) = {} /\ ~Active(d.chatId)

\* The tick callback k takes a step (the process is not being terminated).
TickSteps(k) == booted' /\ CopiesIn(k, ticks') < CopiesIn(k, ticks)

\* The step of a callback that awaits its select: it ends there, having
\* changed nothing, and does so whenever the record is absent or has
\* active = false; or it goes on to the update, which it does only when the
\* record has active = true.
C15_AfterSelect ==
    \A k \in BagToSet(ticks) :
        (k.pc = "t_select" /\ TickSteps(k))
            => /\ UNCHANGED <<reminders, activeTasks, tasks, calls>>
               /\ \/ ticks' = Remove(ticks, k)
                  \/ Active(k.chat) /\ ticks' = Replace(ticks, k, [k EXCEPT !.pc = "t_update"])
               /\ ~Active(k.chat) => ticks' = Remove(ticks, k)

\* The step of a callback that awaits its update: last_reminder is written
\* when the store accepts the update, nothing else of the record changes, no
\* task and no key changes, and the callback goes on to send.
C15_AfterUpdate ==
    \A k \in BagToSet(ticks) :
        (k.pc = "t_update" /\ TickSteps(k))
            => /\ UNCHANGED <<activeTasks, tasks, calls>>
               /\ \E resp \in {"ok", "unavailable"} :
                    /\ ticks' = Replace(ticks, k, [k EXCEPT !.pc = "t_send", !.resp = resp])
                    /\ reminders' = IF resp = "ok" THEN UpdateLastReminder(k.chat)[1]
                                                    ELSE reminders
               /\ UpdateLastReminder(k.chat)[1][k.chat] =
                      <<[reminders[k.chat][1] EXCEPT !.last_reminder = 1]>>

\* The step of a callback that sends: one reminder goes out, the callback is
\* over, and nothing else changes.
C15_Sends ==
    \A k \in BagToSet(ticks) :
        (k.pc = "t_send" /\ TickSteps(k))
            => /\ UNCHANGED <<reminders, activeTasks, tasks, calls>>
               /\ ticks' = Remove(ticks, k)

\* Every callback in flight is at its select, at its update or at its send.
C15_Positions ==
    \A k \in BagToSet(ticks) : k.pc \in {"t_select", "t_update", "t_send"}

\* C15: a tick that reads active = false, or finds no record, does nothing:
\* it writes no last_reminder, sends no reminder and changes neither
\* activeTasks nor the active flag; a tick that reads active = true issues the
\* write of last_reminder (nothing else of the record changes) and then sends
\* exactly one reminder for its chat.
C15_TickEffects ==
    /\ []C15_Positions
    /\ [][C15_AfterSelect /\ C15_AfterUpdate /\ C15_Sends]_vars

\* A tick has read active = true, has written last_reminder and is about to
\* send, while the chat is running.
C15_Witness ==
    \E k \in BagToSet(ticks) :
        /\ k.pc = "t_send" /\ k.resp = "ok"
        /\ reminders[k.chat] # <<>> /\ reminders[k.chat][1].last_reminder = 1
        /\ Active(k.chat) /\ Held(k.chat)

\* C16: every reminder a tick sends is preceded, in that tick, by a successful
\* write of last_reminder: a tick whose update failed sends nothing.
C16_FireAfterWrite ==
    [][\A k \in BagToSet(ticks) :
          (k.pc = "t_send" /\ TickSteps(k)) => k.resp = "ok"]_vars

\* C17: an Enable, SetInterval, Disable or Acknowledge call that returns after
\* one of its store calls failed reports a failure, also when the failed call
\* is the select of active that SetInterval issues after its upsert.
C17_StoreFailuresReported ==
    \A k \in InFlight :
        (k.pc = "done" /\ k.at \in CallRequests /\ Failed(k.resp))
            => k.result = "error"

\* The callback k gets its write of last_reminder accepted by the store.
WritesLastReminder(k) ==
    /\ k.pc = "t_update" /\ TickSteps(k)
    /\ [k EXCEPT !.pc = "t_send", !.resp = "ok"] \in BagToSet(ticks')

\* The callback k sends its reminder.
Delivers(k) == k.pc = "t_send" /\ TickSteps(k)

\* C18: once Disable or Acknowledge of a chat has completed successfully, and
\* until a later Enable starts, no reminder is sent to the chat and no
\* last_reminder is written for it, not even by a tick of the stopped task
\* that had read active = true before the task was stopped.
C18_NoFireAfterDisable ==
    [][\A d \in InFlight :
          (d.op \in StopOps /\ d.pc = "done" /\ d.result = "ok")
            => \A k \in BagToSet(ticks) :
                 k.chat = d.chatId => ~Delivers(k) /\ ~WritesLastReminder(k)]_vars

\* C19: whenever no operation is in progress, the live task of a chat ticks
\* at the interval_minutes the record of the chat holds, whatever Enable and
\* SetInterval calls came before, overlapping or with failed store calls.
C19_CadenceIsPersistedInterval ==
    (booted /\ AllIdle) =>
        \A c \in Chats : \A i \in LiveTasks(c) :
            /\ reminders[c] # <<>>
            /\ tasks[i].interval = reminders[c][1].interval_minutes

\* No Disable or Acknowledge call is in flight.
NoStopCalled == \A k \in InFlight : k.op \notin StopOps

\* An Enable call has completed successfully.
EnabledOk == \E k \in InFlight : k.op = "remind" /\ k.pc = "done" /\ k.result = "ok"

\* C20: when a chat has been enabled successfully and no Disable or
\* Acknowledge is ever called, then under fair scheduling of the ticks and a
\* store that does not fail for ever, reminders are sent to the chat again and
\* again: a tick that failed does not stop later ticks.  (One lifetime of the
\* process; restarts are C6.)
C20_KeepsFiring ==
    ([]NoStopCalled /\ <>EnabledOk)
        => []<><<\E k \in BagToSet(ticks) : TickSends(k)>>_vars

\* A tick is about to send although its own write failed, after an earlier
\* tick of the running chat had written last_reminder.
C20_Witness ==
    \E k \in BagToSet(ticks) :
        /\ k.pc = "t_send" /\ k.resp = "unavailable"
        /\ Held(k.chat) /\ Active(k.chat)
        /\ reminders[k.chat][1].last_reminder = 1

====
